---- MODULE Spec2Model ----
(***************************************************************************)
(* Model of src/main.py: the in-memory task store, the task executor       *)
(* (execute_task), the WebSocket ConnectionManager and the HTTP handlers.  *)
(* Everything runs on one asyncio event loop, so a step of the model is    *)
(* the code a coroutine runs between two suspension points (awaits that    *)
(* really wait: websocket accept/send/receive and browser.run).            *)
(***************************************************************************)
EXTENDS Integers, Sequences, FiniteSets, TLC

\* ------------------------------------------------------------- bounds
\* what the outside world may start in one run: HTTP requests, websockets
\* opened and text frames sent, counted together
MaxArrivals == 3

Clients == 1..MaxArrivals        \* the websocket handles
NoConn == 0                      \* "no websocket" (no send in flight)
None == "None"                   \* Python None
Results(t) == {"r" \o t}         \* the text browser.run may return for the request of task t
Errors(t) == {"e" \o t}          \* str(e) of what browser.run may raise for it
InitOutcomes == {"ok", "browser_raises", "llm_raises"}   \* of Browser() and ChatOpenAI()

VARIABLES
    browser,             \* global browser: None or "Browser" (its llm attribute is only
                         \* read by the external library and is not kept)
    tasks,               \* global tasks: dict id -> TaskResponse
    executors,           \* the coroutines started by asyncio.create_task, in start order
    active_connections,  \* manager.active_connections (a list)
    wsPc,                \* where each websocket_endpoint coroutine stands
    link,                \* the peer of each websocket: "open" or "closed"
    received,            \* the JSON frames each peer has been sent, in order
    arrivals,            \* HTTP requests, websockets and text frames that have arrived
    resp                 \* the HTTP response the last step produced (NoResp: it produced none)

vars == <<browser, tasks, executors, active_connections, wsPc, link, received, arrivals, resp>>

\* ------------------------------------------------------------- helpers
Digit(d) ==
    CASE d = 0 -> "0" [] d = 1 -> "1" [] d = 2 -> "2" [] d = 3 -> "3" [] d = 4 -> "4"
      [] d = 5 -> "5" [] d = 6 -> "6" [] d = 7 -> "7" [] d = 8 -> "8" [] d = 9 -> "9"

\* str(n) for n >= 0
RECURSIVE str(_)
str(n) == IF n < 10 THEN Digit(n) ELSE str(n \div 10) \o Digit(n % 10)

\* len(tasks)
len(d) == Cardinality(DOMAIN d)

\* TaskResponse(id=..., status=...), result and error default to None
TaskResponse(id, status) == [id |-> id, status |-> status, result |-> None, error |-> None]

\* the frames the server sends
Frame(type, task_id, status, result, error) ==
    [type |-> type, task_id |-> task_id, status |-> status, result |-> result, error |-> error]
ConnectedMsg == Frame("status", None, "connected", None, None)
AckMsg == Frame("ack", None, "received", None, None)
ProcessingMsg(t) == Frame("status", t, "processing", None, None)
ResultMsg(t, r) == Frame("result", t, "completed", r, None)
ErrorMsg(t, e) == Frame("error", t, "failed", None, e)

\* websocket.send_json(frame) to peer ws: it succeeds while the peer is open
SendOk(ws) == link[ws] = "open"
Deliver(rcv, ws, frame) == [rcv EXCEPT ![ws] = Append(@, frame)]

\* ------------------------------------------------------------- ConnectionManager
Range(s) == {s[i] : i \in 1..Len(s)}
Count(s, x) == Cardinality({i \in 1..Len(s) : s[i] = x})

\* list.remove(x): drops the first occurrence; ValueError when absent
Contains(s, x) == \E i \in 1..Len(s) : s[i] = x
Remove(s, x) ==
    LET i == CHOOSE k \in 1..Len(s) : s[k] = x /\ \A j \in 1..(k-1) : s[j] # x
    IN  SubSeq(s, 1, i-1) \o SubSeq(s, i+1, Len(s))


\* faulty variant: the handle is deleted by the position a search gave, and the
\* search answers "last" for a handle that is not in the list
disconnect_by_position(conns, ws) ==
    IF Contains(conns, ws) THEN Remove(conns, ws)
    ELSE IF conns = <<>> THEN conns ELSE SubSeq(conns, 1, Len(conns) - 1)

\* ConnectionManager.disconnect: remove, the ValueError is caught and logged
disconnect(conns, ws) == IF Contains(conns, ws) THEN Remove(conns, ws) ELSE conns

\* the clean-up loop of broadcast: disconnect every collected connection
RECURSIVE DisconnectAll(_, _)
DisconnectAll(conns, disc) ==
    IF disc = <<>> THEN conns
    ELSE DisconnectAll(disconnect(conns, Head(disc)), Tail(disc))

\* where execute_task goes on when a broadcast has returned
AfterBroadcast(pc) == IF pc = "bc_processing" THEN "agent" ELSE "done"

\* The for-loop of broadcast, from the point where the list iterator is asked
\* for the next item (index e.idx over the live list) up to the next
\* suspension: either a send to the item fetched, or (iterator exhausted) the
\* clean-up loop and the return to execute_task.
broadcast_loop(e, conns) ==
    IF e.idx < Len(conns)
    THEN [ex    |-> [e EXCEPT !.cur = conns[e.idx + 1], !.idx = e.idx + 1,
                              !.sent = Append(@, conns[e.idx + 1])],
          conns |-> conns]
    ELSE [ex    |-> [e EXCEPT !.pc = AfterBroadcast(e.pc), !.cur = NoConn,
                              !.idx = 0, !.disc = <<>>, !.members = {}, !.sent = <<>>,
                              !.calls = IF AfterBroadcast(e.pc) = "agent" THEN @ + 1 ELSE @],
          conns |-> DisconnectAll(conns, e.disc)]

\* broadcast(message) is called by executor e in phase pc: a fresh iterator
\* and an empty `disconnected` list
broadcast(e, pc, conns) ==
    broadcast_loop([e EXCEPT !.pc = pc, !.idx = 0, !.cur = NoConn, !.disc = <<>>,
                             !.members = Range(conns), !.sent = <<>>], conns)

\* the frame a broadcasting executor is sending, built from its locals
BroadcastMsg(e) ==
    CASE e.pc = "bc_processing" -> ProcessingMsg(e.task_id)
      [] e.pc = "bc_result" -> ResultMsg(e.task_id, e.ret)
      [] e.pc = "bc_error" -> ErrorMsg(e.task_id, e.ret)

\* ------------------------------------------------------------- browser

\* faulty variant: initialize_browser without its `if browser is None`
initialize_browser_every_call(b, o) ==
    CASE o = "ok" -> [browser |-> "Browser", raised |-> FALSE, built |-> TRUE]
      [] o = "browser_raises" -> [browser |-> b, raised |-> TRUE, built |-> FALSE]
      [] o = "llm_raises" -> [browser |-> "Browser", raised |-> TRUE, built |-> TRUE]

\* initialize_browser under the outcome o of Browser() / ChatOpenAI();
\* built tells whether the call constructed a Browser
initialize_browser(b, o) ==
    IF b # None THEN [browser |-> b, raised |-> FALSE, built |-> FALSE]
    ELSE CASE o = "ok" -> [browser |-> "Browser", raised |-> FALSE, built |-> TRUE]
           [] o = "browser_raises" -> [browser |-> None, raised |-> TRUE, built |-> FALSE]
           [] o = "llm_raises" -> [browser |-> "Browser", raised |-> TRUE, built |-> TRUE]

\* ------------------------------------------------------------- state
\* op, arg, code and body are the request and its answer; built tells whether
\* the handler constructed a Browser on the way
NoResp == [op |-> "none", arg |-> None, code |-> 0, body |-> None, built |-> FALSE]

Init ==
    /\ browser = None
    /\ tasks = <<>>
    /\ executors = <<>>
    /\ active_connections = <<>>
    /\ wsPc = [c \in Clients |-> "idle"]
    /\ link = [c \in Clients |-> "open"]
    /\ received = [c \in Clients |-> <<>>]
    /\ arrivals = 0
    /\ resp = NoResp

\* the run takes one more arrival
Arrive ==
    /\ arrivals < MaxArrivals
    /\ arrivals' = arrivals + 1

\* faulty variant: the health check makes sure the browser is there before it
\* answers
health_check_probes_browser ==
    /\ Arrive
    /\ LET ib == initialize_browser(browser, "ok")
       IN  /\ browser' = ib.browser
           /\ resp' = [op |-> "health", arg |-> None, code |-> 200,
                       body |-> [status |-> "healthy"], built |-> ib.built]
    /\ UNCHANGED <<tasks, executors, active_connections, wsPc, link, received>>

\* ------------------------------------------------------------- HTTP handlers
\* GET /health
health_check ==
    /\ Arrive
    /\ resp' = [op |-> "health", arg |-> None, code |-> 200, body |-> [status |-> "healthy"],
                built |-> FALSE]
    /\ UNCHANGED <<browser, tasks, executors, active_connections, wsPc, link, received>>

\* the new executor coroutine asyncio.create_task schedules
\* pc, idx (the list iterator), cur (the connection of the send awaited),
\* disc (`disconnected`) and ret (`result` or `e`) are the coroutine's frame;
\* members, sent and calls only record history: the connections registered
\* when the running broadcast began, the connections it has sent to, and how
\* often the coroutine has called browser.run
NewExecutor(task_id) ==
    [task_id |-> task_id, pc |-> "start", idx |-> 0, cur |-> NoConn, disc |-> <<>>,
     ret |-> None, members |-> {}, sent |-> <<>>, calls |-> 0]

\* faulty variant: the id is the current count, not count + 1
NextTaskId_count(d) == str(len(d))

\* the id create_task allocates
NextTaskId(d) == str(len(d) + 1)

\* faulty variant: the handler awaits execute_task instead of scheduling it: the
\* record it returns has already been taken up by the executor
create_task_awaits_executor(o) ==
    /\ Arrive
    /\ LET ib == initialize_browser(browser, o)
           task_id == NextTaskId(tasks)
           task == TaskResponse(task_id, "processing")
           b == broadcast(NewExecutor(task_id), "bc_processing", active_connections)
       IN  /\ browser' = ib.browser
           /\ IF ib.raised
              THEN /\ resp' = [op |-> "create", arg |-> None, code |-> 500, body |-> o,
                                 built |-> ib.built]
                   /\ UNCHANGED <<tasks, executors>>
              ELSE /\ tasks' = [k \in DOMAIN tasks \cup {task_id} |->
                                    IF k = task_id THEN task ELSE tasks[k]]
                   /\ executors' = Append(executors, b.ex)
                   /\ resp' = [op |-> "create", arg |-> task_id, code |-> 200,
                                 body |-> tasks'[task_id], built |-> ib.built]
    /\ UNCHANGED <<active_connections, wsPc, link, received>>

\* POST /tasks; o is what initialising the browser does
create_task(o) ==
    /\ Arrive
    /\ LET ib == initialize_browser(browser, o)
           task_id == NextTaskId(tasks)
           task == TaskResponse(task_id, "pending")
       IN  /\ browser' = ib.browser
           /\ IF ib.raised
              THEN /\ resp' = [op |-> "create", arg |-> None, code |-> 500, body |-> o,
                                 built |-> ib.built]
                   /\ UNCHANGED <<tasks, executors>>
              ELSE /\ tasks' = [k \in DOMAIN tasks \cup {task_id} |->
                                    IF k = task_id THEN task ELSE tasks[k]]
                   /\ executors' = Append(executors, NewExecutor(task_id))
                   /\ resp' = [op |-> "create", arg |-> task_id, code |-> 200,
                                 body |-> tasks'[task_id], built |-> ib.built]
    /\ UNCHANGED <<active_connections, wsPc, link, received>>


\* faulty variant: the handler answers with the record as it was created
get_task_response_as_created(d, task_id) ==
    IF task_id \notin DOMAIN d
    THEN [op |-> "get", arg |-> task_id, code |-> 500, body |-> "404: Task not found",
          built |-> FALSE]
    ELSE [op |-> "get", arg |-> task_id, code |-> 200,
          body |-> TaskResponse(task_id, "pending"), built |-> FALSE]

\* what get_task answers in a store d
get_task_response(d, task_id) ==
    IF task_id \notin DOMAIN d
    THEN \* HTTPException(404) is raised inside the try and caught by
         \* `except Exception`, which raises HTTPException(500, str(e))
         [op |-> "get", arg |-> task_id, code |-> 500, body |-> "404: Task not found",
          built |-> FALSE]
    ELSE [op |-> "get", arg |-> task_id, code |-> 200, body |-> d[task_id], built |-> FALSE]

\* the ids a caller may ask for
AskedIds == {str(n) : n \in 1..(MaxArrivals + 1)}

\* GET /tasks/{task_id}
get_task(task_id) ==
    /\ Arrive
    /\ resp' = get_task_response(tasks, task_id)
    /\ UNCHANGED <<browser, tasks, executors, active_connections, wsPc, link, received>>

\* ------------------------------------------------------------- execute_task
SetTask(t, status, result, error) ==
    [tasks EXCEPT ![t] = [@ EXCEPT !.status = status, !.result = result, !.error = error]]

\* executor k goes on as b.ex, the connection list as b.conns
Continue(k, b) ==
    /\ executors' = [executors EXCEPT ![k] = b.ex]
    /\ active_connections' = b.conns

\* execute_task up to its first suspension: status = processing, broadcast
execute_task_start(k) ==
    /\ executors[k].pc = "start"
    /\ LET t == executors[k].task_id
       IN  /\ tasks' = SetTask(t, "processing", tasks[t].result, tasks[t].error)
           /\ Continue(k, broadcast(executors[k], "bc_processing", active_connections))
    /\ UNCHANGED <<browser, wsPc, link, received, arrivals>>
    /\ resp' = NoResp

\* faulty variant: broadcast without its try/except: a failing send propagates into
\* execute_task, whose except clause marks the task failed and broadcasts the
\* error (raised from inside that clause, it ends the coroutine)
broadcast_resume_propagates(k) ==
    /\ executors[k].pc \in {"bc_processing", "bc_result", "bc_error"}
    /\ executors[k].cur # NoConn
    /\ LET e == executors[k]
           t == e.task_id
       IN  IF SendOk(e.cur)
           THEN /\ received' = Deliver(received, e.cur, BroadcastMsg(e))
                /\ Continue(k, broadcast_loop(e, active_connections))
                /\ UNCHANGED tasks
           ELSE /\ UNCHANGED received
                /\ IF e.pc = "bc_error"
                   THEN /\ executors' = [executors EXCEPT ![k] = [NewExecutor(t) EXCEPT !.pc = "done", !.ret = e.ret]]
                        /\ UNCHANGED <<tasks, active_connections>>
                   ELSE /\ tasks' = SetTask(t, "failed", tasks[t].result, "send failed")
                        /\ Continue(k, broadcast([e EXCEPT !.ret = "send failed"], "bc_error",
                                                  active_connections))
    /\ UNCHANGED <<browser, wsPc, link, arrivals>>
    /\ resp' = NoResp


\* faulty variant: a send that raised is tried again on the same connection
\* until it succeeds
broadcast_resume_retries(k) ==
    /\ executors[k].pc \in {"bc_processing", "bc_result", "bc_error"}
    /\ executors[k].cur # NoConn
    /\ LET e == executors[k]
       IN  IF SendOk(e.cur)
           THEN /\ received' = Deliver(received, e.cur, BroadcastMsg(e))
                /\ Continue(k, broadcast_loop(e, active_connections))
           ELSE UNCHANGED <<received, executors, active_connections>>
    /\ UNCHANGED <<browser, tasks, wsPc, link, arrivals>>
    /\ resp' = NoResp

\* a send of a broadcast completes (or raises) and the loop goes on
broadcast_resume(k) ==
    /\ executors[k].pc \in {"bc_processing", "bc_result", "bc_error"}
    /\ executors[k].cur # NoConn
    /\ LET e == executors[k]
           ok == SendOk(e.cur)
       IN  /\ received' = IF ok THEN Deliver(received, e.cur, BroadcastMsg(e)) ELSE received
           /\ Continue(k, broadcast_loop(IF ok THEN e ELSE [e EXCEPT !.disc = Append(@, e.cur)],
                                          active_connections))
    /\ UNCHANGED <<browser, tasks, wsPc, link, arrivals>>
    /\ resp' = NoResp

\* faulty variant: the result is broadcast before the record is updated
execute_task_success_broadcast_first(k, r) ==
    /\ executors[k].pc = "agent"
    /\ Continue(k, broadcast([executors[k] EXCEPT !.ret = r], "bc_result", active_connections))
    /\ UNCHANGED <<browser, tasks, wsPc, link, received, arrivals>>
    /\ resp' = NoResp


\* faulty variant: the executor writes to the record created last, as if the
\* task were kept in one variable that every POST overwrites
execute_task_success_latest_record(k, r) ==
    /\ executors[k].pc = "agent"
    /\ LET t == str(len(tasks))
       IN  /\ tasks' = SetTask(t, "completed", r, tasks[t].error)
           /\ Continue(k, broadcast([executors[k] EXCEPT !.ret = r], "bc_result",
                                     active_connections))
    /\ UNCHANGED <<browser, wsPc, link, received, arrivals>>
    /\ resp' = NoResp

\* browser.run returns r: status = completed, result = r, broadcast
execute_task_success(k, r) ==
    /\ executors[k].pc = "agent"
    /\ LET t == executors[k].task_id
       IN  /\ tasks' = SetTask(t, "completed", r, tasks[t].error)
           /\ Continue(k, broadcast([executors[k] EXCEPT !.ret = r], "bc_result",
                                     active_connections))
    /\ UNCHANGED <<browser, wsPc, link, received, arrivals>>
    /\ resp' = NoResp

\* faulty variant: the except clause records the failure and broadcasts nothing
execute_task_failure_silent(k, err) ==
    /\ executors[k].pc = "agent"
    /\ LET t == executors[k].task_id
       IN  /\ tasks' = SetTask(t, "failed", tasks[t].result, err)
           /\ executors' = [executors EXCEPT ![k] = [@ EXCEPT !.pc = "done", !.ret = err]]
    /\ UNCHANGED <<browser, active_connections, wsPc, link, received, arrivals>>
    /\ resp' = NoResp

\* faulty variant: the except clause records the error but not the status
execute_task_failure_keeps_status(k, err) ==
    /\ executors[k].pc = "agent"
    /\ LET t == executors[k].task_id
       IN  /\ tasks' = SetTask(t, tasks[t].status, tasks[t].result, err)
           /\ Continue(k, broadcast([executors[k] EXCEPT !.ret = err], "bc_error",
                                     active_connections))
    /\ UNCHANGED <<browser, wsPc, link, received, arrivals>>
    /\ resp' = NoResp


\* faulty variant: the except clause runs the agent once more before it gives up
execute_task_failure_retries(k, err) ==
    /\ executors[k].pc = "agent"
    /\ LET t == executors[k].task_id
       IN  IF executors[k].calls < 2
           THEN /\ executors' = [executors EXCEPT ![k] = [@ EXCEPT !.calls = @ + 1]]
                /\ UNCHANGED <<tasks, active_connections>>
           ELSE /\ tasks' = SetTask(t, "failed", tasks[t].result, err)
                /\ Continue(k, broadcast([executors[k] EXCEPT !.ret = err], "bc_error",
                                          active_connections))
    /\ UNCHANGED <<browser, wsPc, link, received, arrivals>>
    /\ resp' = NoResp

\* browser.run raises, str(e) = err: status = failed, error = err, broadcast
execute_task_failure(k, err) ==
    /\ executors[k].pc = "agent"
    /\ LET t == executors[k].task_id
       IN  /\ tasks' = SetTask(t, "failed", tasks[t].result, err)
           /\ Continue(k, broadcast([executors[k] EXCEPT !.ret = err], "bc_error",
                                     active_connections))
    /\ UNCHANGED <<browser, wsPc, link, received, arrivals>>
    /\ resp' = NoResp

\* ------------------------------------------------------------- websocket_endpoint

\* faulty variant: the handler ends without a finally clause
EndHandler_without_finally(ws) ==
    /\ UNCHANGED active_connections
    /\ wsPc' = [wsPc EXCEPT ![ws] = "done"]

\* the finally clause: manager.disconnect(websocket), and the handler ends
EndHandler(ws) ==
    /\ active_connections' = disconnect(active_connections, ws)
    /\ wsPc' = [wsPc EXCEPT ![ws] = "done"]

\* a new websocket arrives and manager.connect awaits websocket.accept().
\* accept() returns: append, then await send_json(connected);
\* accept() raises (the peer is gone): connect re-raises, the handler logs
\* and its finally clause disconnects
ws_accepted(ws, ok) ==
    /\ wsPc[ws] = "idle"
    /\ Arrive
    /\ \A c \in Clients : c < ws => wsPc[c] # "idle"
    /\ IF ok
       THEN /\ active_connections' = Append(active_connections, ws)
            /\ wsPc' = [wsPc EXCEPT ![ws] = "greeting"]
            /\ UNCHANGED link
       ELSE /\ EndHandler(ws)
            /\ link' = [link EXCEPT ![ws] = "closed"]
    /\ UNCHANGED <<browser, tasks, executors, received>>
    /\ resp' = NoResp

\* the send of the connected frame completes or raises
ws_greeted(ws) ==
    /\ wsPc[ws] = "greeting"
    /\ IF SendOk(ws)
       THEN /\ received' = Deliver(received, ws, ConnectedMsg)
            /\ wsPc' = [wsPc EXCEPT ![ws] = "receiving"]
            /\ UNCHANGED active_connections
       ELSE /\ EndHandler(ws)
            /\ UNCHANGED received
    /\ UNCHANGED <<browser, tasks, executors, link, arrivals>>
    /\ resp' = NoResp

\* receive_text() returns a frame (then the ack is sent) or raises
\* WebSocketDisconnect (then the loop breaks)
ws_received(ws) ==
    /\ wsPc[ws] = "receiving"
    /\ IF SendOk(ws)
       THEN /\ Arrive
            /\ wsPc' = [wsPc EXCEPT ![ws] = "acking"]
            /\ UNCHANGED active_connections
       ELSE /\ EndHandler(ws)
            /\ UNCHANGED arrivals
    /\ UNCHANGED <<browser, tasks, executors, link, received>>
    /\ resp' = NoResp

\* the send of the ack completes or raises (then the loop breaks)
ws_acked(ws) ==
    /\ wsPc[ws] = "acking"
    /\ IF SendOk(ws)
       THEN /\ received' = Deliver(received, ws, AckMsg)
            /\ wsPc' = [wsPc EXCEPT ![ws] = "receiving"]
            /\ UNCHANGED active_connections
       ELSE /\ EndHandler(ws)
            /\ UNCHANGED received
    /\ UNCHANGED <<browser, tasks, executors, link, arrivals>>
    /\ resp' = NoResp

\* the peer goes away: from now on accept, send and receive on ws raise
peer_closes(ws) ==
    /\ wsPc[ws] \notin {"idle", "done"}
    /\ link[ws] = "open"
    /\ link' = [link EXCEPT ![ws] = "closed"]
    /\ UNCHANGED <<browser, tasks, executors, active_connections, wsPc, received, arrivals>>
    /\ resp' = NoResp

\* ------------------------------------------------------------- specification
Next ==
    \/ health_check
    \/ \E o \in InitOutcomes : create_task(o)
    \/ \E id \in AskedIds : get_task(id)
    \/ \E k \in 1..Len(executors) : execute_task_start(k)
    \/ \E k \in 1..Len(executors) : broadcast_resume(k)
    \/ \E k \in 1..Len(executors) : \E r \in Results(executors[k].task_id) :
            execute_task_success(k, r)
    \/ \E k \in 1..Len(executors) : \E err \in Errors(executors[k].task_id) :
            execute_task_failure(k, err)
    \/ \E ws \in Clients, ok \in BOOLEAN : ws_accepted(ws, ok)
    \/ \E ws \in Clients : ws_greeted(ws)
    \/ \E ws \in Clients : ws_received(ws)
    \/ \E ws \in Clients : ws_acked(ws)
    \/ \E ws \in Clients : peer_closes(ws)

Spec == Init /\ [][Next]_vars

\* The event loop runs every coroutine that can go on: a scheduled executor
\* starts, an awaited send or agent call returns or raises, and a handler
\* whose peer has gone sees receive_text raise. What arrives from outside,
\* and when a peer goes away, is under no fairness.
ExecutorStep ==
    \E k \in 1..Len(executors) :
        \/ execute_task_start(k)
        \/ broadcast_resume(k)
        \/ \E r \in Results(executors[k].task_id) : execute_task_success(k, r)
        \/ \E err \in Errors(executors[k].task_id) : execute_task_failure(k, err)
HandlerStep ==
    \E ws \in Clients :
        \/ ws_greeted(ws)
        \/ ws_acked(ws)
        \/ (~SendOk(ws) /\ ws_received(ws))

FairSpec == Spec /\ WF_vars(ExecutorStep) /\ WF_vars(HandlerStep)

\* ------------------------------------------------------------- properties
Registered(c) == c \in Range(active_connections)
ExecutorsOf(t) == {k \in 1..Len(executors) : executors[k].task_id = t}

\* one step of a record's status: none, or one edge of
\* pending -> processing -> completed | failed
StatusStep(a, b) ==
    \/ a = b
    \/ <<a, b>> \in {<<"pending", "processing">>, <<"processing", "completed">>,
                     <<"processing", "failed">>}

\* C1: no step removes a record or moves its status other than along
\* pending -> processing -> completed or pending -> processing -> failed
\* (so completed and failed are never left and never reached without
\* processing), and a record enters the store as pending.
C1_StatusForward ==
    [][ /\ \A t \in DOMAIN tasks :
              t \in DOMAIN tasks' /\ StatusStep(tasks[t].status, tasks'[t].status)
        /\ \A t \in DOMAIN tasks' \ DOMAIN tasks : tasks'[t].status = "pending" ]_vars

\* one task has completed, another has failed, and a peer has gone away
C1_Witness ==
    /\ \E t \in DOMAIN tasks : tasks[t].status = "completed"
    /\ \E t \in DOMAIN tasks : tasks[t].status = "failed"
    /\ \E c \in Clients : link[c] = "closed"

\* C2: result is set only on a completed record and error only on a failed
\* one, never both, neither while pending or processing; a completed record
\* holds the text its agent call returned and a failed one the description of
\* what it raised.
C2_ResultXorError ==
    \A t \in DOMAIN tasks :
        LET r == tasks[t]
        IN  /\ r.result # None => r.status = "completed"
            /\ r.error # None => r.status = "failed"
            /\ ~(r.result # None /\ r.error # None)
            /\ r.status \in {"pending", "processing"} => r.result = None /\ r.error = None
            /\ r.status = "completed" =>
                    /\ r.result \in Results(t)
                    /\ \A k \in ExecutorsOf(t) : executors[k].ret = r.result
            /\ r.status = "failed" =>
                    /\ r.error \in Errors(t)
                    /\ \A k \in ExecutorsOf(t) : executors[k].ret = r.error

\* a completed record with its result next to a failed one with its error
C2_Witness ==
    \E t1, t2 \in DOMAIN tasks :
        /\ tasks[t1].status = "completed" /\ tasks[t1].result \in Results(t1)
        /\ tasks[t2].status = "failed" /\ tasks[t2].error \in Errors(t2)

\* the store holds exactly the ids "1".."N", each record under its own id,
\* and the k-th executor started belongs to id str(k)
C3_IdsInOrder ==
    /\ DOMAIN tasks = {str(n) : n \in 1..len(tasks)}
    /\ \A t \in DOMAIN tasks : tasks[t].id = t
    /\ Len(executors) = len(tasks)
    /\ \A k \in 1..Len(executors) : executors[k].task_id = str(k)

\* C3: after any sequence of POST /tasks calls, failed ones included, the N
\* records have the ids "1".."N" in creation order; a creation adds one id
\* greater than all before and leaves every existing entry as it was, and no
\* step removes an entry.
C3_UniqueIncreasingIds ==
    /\ []C3_IdsInOrder
    /\ [][ /\ DOMAIN tasks \subseteq DOMAIN tasks'
           /\ DOMAIN tasks' # DOMAIN tasks =>
                 /\ DOMAIN tasks' = DOMAIN tasks \cup {str(len(tasks) + 1)}
                 /\ str(len(tasks) + 1) \notin DOMAIN tasks
                 /\ \A t \in DOMAIN tasks : tasks'[t] = tasks[t] ]_vars

\* three creations, the first two already executed
C3_Witness ==
    /\ DOMAIN tasks = {"1", "2", "3"}
    /\ tasks["1"].status = "failed" /\ tasks["2"].status = "completed"
    /\ tasks["3"].status = "pending"

\* C4 (as claimed): GET /tasks/{id} for an id that was never issued answers
\* 404 with a message and leaves the store as it was.
C4_UnknownIdIs404 ==
    /\ [](resp.op = "get" /\ resp.arg \notin DOMAIN tasks =>
              resp.code = 404 /\ resp.body # None)
    /\ [][resp'.op = "get" => tasks' = tasks]_vars

BcPhases == {"bc_processing", "bc_result", "bc_error"}

\* this step ends the broadcast executor k is in
PassEnds(k) ==
    /\ executors[k].pc \in BcPhases
    /\ executors'[k].pc = AfterBroadcast(executors[k].pc)

\* the connections whose send raised in the broadcast executor k is in, the
\* send being resumed included
FailedInPass(k) ==
    Range(executors[k].disc) \cup
        (IF executors[k].cur # NoConn /\ ~SendOk(executors[k].cur)
         THEN {executors[k].cur} ELSE {})

\* C5 (as claimed): when a broadcast ends, every client registered from its
\* start to its end has been sent the message exactly once.
C5_BroadcastReachesAll ==
    [][ \A k \in 1..Len(executors) :
            PassEnds(k) =>
                \A c \in executors[k].members :
                    Registered(c) => Count(executors[k].sent, c) = 1 ]_vars

\* C6 (as claimed): when a broadcast in which a send failed ends, it has not
\* raised into execute_task, the send was attempted to every other client
\* that stayed registered, the failing clients are out of the connection set
\* (whoever removed them) and no other client has been removed.
C6_FailureIsolated ==
    [][ \A k \in 1..Len(executors) :
            PassEnds(k) /\ FailedInPass(k) # {} =>
                /\ tasks' = tasks
                /\ \A c \in executors[k].members :
                       Registered(c) => c \in Range(executors[k].sent)
                /\ \A c \in FailedInPass(k) : c \notin Range(active_connections')
                /\ active_connections' =
                       SelectSeq(active_connections, LAMBDA c : c \notin FailedInPass(k)) ]_vars

\* the parts of C6 that do not depend on who is sent to
C6_FailureIsolatedButSkips ==
    [][ \A k \in 1..Len(executors) :
            PassEnds(k) /\ FailedInPass(k) # {} =>
                /\ tasks' = tasks
                /\ \A c \in FailedInPass(k) : c \notin Range(active_connections')
                /\ active_connections' =
                       SelectSeq(active_connections, LAMBDA c : c \notin FailedInPass(k)) ]_vars

\* positions in the frames client c has been sent
Positions(c) == 1..Len(received[c])
IsTerminalFor(m, t) == m.task_id = t /\ m.status \in {"completed", "failed"}

\* client c is registered and its peer is there
Connected(c) == Registered(c) /\ SendOk(c)

\* task str(k) has been created and its executor has not finished
Alive(k) == k <= Len(executors) /\ executors[k].pc # "done"
Finished(k) == k <= Len(executors) /\ executors[k].pc = "done"

\* c has been sent the processing frame of task t and, after it, exactly one
\* terminal frame of t
GotProcessingThenOneTerminal(c, t) ==
    /\ \E i \in Positions(c) : received[c][i] = ProcessingMsg(t)
    /\ Cardinality({i \in Positions(c) : IsTerminalFor(received[c][i], t)}) = 1

\* no terminal frame of a task comes before its processing frame
TerminalAfterProcessing(c, t) ==
    \A i, j \in Positions(c) :
        IsTerminalFor(received[c][i], t) /\ received[c][j] = ProcessingMsg(t) => j < i

\* C7 (as claimed): a client connected, with its peer there, from the creation
\* of a task to the end of its executor has then been sent the task's
\* processing frame and afterwards exactly one terminal frame; and no client
\* is ever sent a terminal frame before the processing frame of the same task.
C7_ProcessingThenTerminal ==
    /\ \A c \in Clients : \A k \in 1..MaxArrivals :
           [](Alive(k) => Connected(c)) =>
               [](Finished(k) => GotProcessingThenOneTerminal(c, str(k)))
    /\ [](\A c \in Clients : \A t \in DOMAIN tasks : TerminalAfterProcessing(c, t))

\* the part of C7 that holds: the order and the number of a task's frames
C7_FramesInOrder ==
    \A c \in Clients : \A t \in DOMAIN tasks :
        /\ TerminalAfterProcessing(c, t)
        /\ Cardinality({i \in Positions(c) : IsTerminalFor(received[c][i], t)}) <= 1
        /\ Cardinality({i \in Positions(c) : received[c][i] = ProcessingMsg(t)}) <= 1

\* C8: a successful POST /tasks answers the pending record it has just
\* inserted while the one executor started for it has taken no step; the
\* call adds one record and one executor and touches no other.
C8_CreateReturnsPending ==
    /\ [](resp.op = "create" /\ resp.code = 200 =>
              /\ resp.arg \in DOMAIN tasks
              /\ resp.body = TaskResponse(resp.arg, "pending")
              /\ tasks[resp.arg] = resp.body
              /\ Cardinality(ExecutorsOf(resp.arg)) = 1
              /\ \A k \in ExecutorsOf(resp.arg) : executors[k] = NewExecutor(resp.arg))
    /\ [][resp'.op = "create" /\ resp'.code = 200 =>
              /\ len(tasks') = len(tasks) + 1
              /\ \A t \in DOMAIN tasks : t \in DOMAIN tasks' /\ tasks'[t] = tasks[t]
              /\ Len(executors') = Len(executors) + 1
              /\ \A k \in 1..Len(executors) : executors'[k] = executors[k] ]_vars

\* the answer to the second POST while the first task's agent call is in flight
C8_Witness ==
    /\ resp.op = "create" /\ resp.code = 200 /\ resp.arg = "2"
    /\ executors[1].pc = "agent"

\* in this step the agent call of executor k raises
AgentRaises(k) ==
    /\ executors[k].pc = "agent"
    /\ executors'[k].pc # "agent"
    /\ executors'[k].ret \in Errors(executors[k].task_id)

\* C9: the step in which an agent call raises sets the task's record to
\* failed with the description as error, starts the broadcast of the error
\* frame carrying that description, and changes no other record, no other
\* executor, not the connection set, the browser or anything a client has
\* been sent; whoever is sent a task's error frame is sent the recorded error.
C9_AgentFailureCaught ==
    /\ [][ \A k \in 1..Len(executors) :
             AgentRaises(k) =>
                LET t == executors[k].task_id
                    e == executors'[k]
                IN  /\ DOMAIN tasks' = DOMAIN tasks
                    /\ tasks'[t] = [tasks[t] EXCEPT !.status = "failed", !.error = e.ret]
                    /\ \A u \in DOMAIN tasks \ {t} : tasks'[u] = tasks[u]
                    /\ \A j \in 1..Len(executors) : j # k => executors'[j] = executors[j]
                    /\ active_connections' = active_connections
                    /\ <<browser, wsPc, link, received>>' = <<browser, wsPc, link, received>>
                    /\ IF active_connections = <<>>
                       THEN e.pc = "done"
                       ELSE /\ e.pc = "bc_error"
                            /\ e.cur = active_connections[1]
                            /\ BroadcastMsg(e) = ErrorMsg(t, tasks'[t].error) ]_vars
    /\ [](\A c \in Clients : \A i \in Positions(c) :
              received[c][i].type = "error" =>
                  /\ received[c][i].task_id \in DOMAIN tasks
                  /\ received[c][i] =
                        ErrorMsg(received[c][i].task_id, tasks[received[c][i].task_id].error))

\* a client has been sent the error frame of a failed task while another
\* task's record is there
C9_Witness ==
    /\ len(tasks) = 2
    /\ \E t \in DOMAIN tasks :
          /\ tasks[t].status = "failed"
          /\ \E c \in Clients : \E i \in Positions(c) :
                 received[c][i] = ErrorMsg(t, tasks[t].error)

\* C10: a GET /tasks/t made once a client has been sent a frame of task t
\* answers the record, with the status and the result or error of a terminal
\* frame sent, and not with pending if the processing frame has been sent.
C10_GetAgreesWithFrames ==
    resp.op = "get" =>
        \A c \in Clients : \A i \in Positions(c) :
            LET m == received[c][i]
            IN  m.task_id = resp.arg =>
                    /\ resp.code = 200
                    /\ IsTerminalFor(m, resp.arg) =>
                           /\ resp.body.status = m.status
                           /\ resp.body.result = m.result
                           /\ resp.body.error = m.error
                    /\ m.status = "processing" => resp.body.status # "pending"

\* a GET of a task whose terminal frame a client has been sent
C10_Witness ==
    /\ resp.op = "get"
    /\ \E c \in Clients : \E i \in Positions(c) : IsTerminalFor(received[c][i], resp.arg)

\* ---------------------------------------------------------------------- C11
\* everything but the arrival count and the answer
ProgramState == <<browser, tasks, executors, active_connections, wsPc, link, received>>

\* C11: GET /tasks/{id} for an id that was issued answers 200 with exactly the
\* record the store holds at the call, whatever its executor is doing, and the
\* call changes no record and nothing else of the program's state
C11_GetReturnsCurrentRecord ==
    /\ [](resp.op = "get" /\ resp.arg \in DOMAIN tasks
            => resp.code = 200 /\ resp.body = tasks[resp.arg])
    /\ [][resp'.op = "get" => UNCHANGED ProgramState]_vars

\* an issued id is read while its executor awaits a send of a broadcast, and
\* the record read is no longer the one created
C11_Witness ==
    /\ resp.op = "get" /\ resp.code = 200
    /\ resp.body.status # "pending"
    /\ \E k \in ExecutorsOf(resp.arg) : executors[k].cur # NoConn

\* ---------------------------------------------------------------------- C12
\* the record of task t as the position and the agent outcome of one
\* executor e of t determine it
RecordOf(e) ==
    LET t == e.task_id
    IN  CASE e.pc = "start" -> TaskResponse(t, "pending")
          [] e.pc \in {"bc_processing", "agent"} -> TaskResponse(t, "processing")
          [] e.ret \in Results(t) ->
                 [id |-> t, status |-> "completed", result |-> e.ret, error |-> None]
          [] e.ret \in Errors(t) ->
                 [id |-> t, status |-> "failed", result |-> None, error |-> e.ret]
          [] OTHER -> None

\* executor k takes a step
Steps(k) == k <= Len(executors) /\ executors'[k] # executors[k]

\* C12: a step of the executor of one task leaves the record of every other
\* task as it was, and every record is at all times what its own executor's
\* position and its own agent outcome make it, in whatever order the
\* executors of concurrent tasks run and finish
C12_TasksIndependent ==
    /\ [](\A t \in DOMAIN tasks : \A k \in ExecutorsOf(t) : tasks[t] = RecordOf(executors[k]))
    /\ [][\A k \in 1..MaxArrivals :
            Steps(k) => \A u \in DOMAIN tasks \ {executors[k].task_id} :
                            tasks'[u] = tasks[u]]_vars

\* two tasks run concurrently and the one created later has finished, with
\* its own result, while the agent of the earlier one still runs
C12_Witness ==
    /\ Len(executors) >= 2
    /\ executors[1].pc = "agent" /\ tasks["1"].status = "processing"
    /\ executors[2].pc = "done" /\ tasks["2"].status = "completed"
    /\ tasks["2"].result \in Results("2")

\* ---------------------------------------------------------------------- C13
Terminal(t) == t \in DOMAIN tasks /\ tasks[t].status \in {"completed", "failed"}

\* C13: when the event loop keeps running the coroutines that can run (the
\* agent returns or raises, every send succeeds or fails), every task that was
\* created reaches completed or failed and none stays pending or processing,
\* while clients connect, disconnect and fail around it
C13_EveryTaskEnds ==
    \A n \in 1..MaxArrivals : (str(n) \in DOMAIN tasks) ~> Terminal(str(n))

\* a task has ended although a client it was broadcast to had failed and
\* another handler had ended in the meantime
C13_Witness ==
    /\ Terminal("1") /\ executors[1].pc = "done"
    /\ \E c \in Clients : link[c] = "closed" /\ wsPc[c] = "done" /\ received[c] # <<>>

\* ---------------------------------------------------------------------- C14
\* C14: a websocket handle is in the connection set at most once and only
\* between its connect and its disconnect: not before its handler began, and
\* not once its handler has ended (a clean close, an error of accept, of a
\* send or of a receive), after which the handler stays ended and the handle
\* is never added again
C14_NoStaleHandle ==
    /\ [](\A c \in Clients :
            /\ Count(active_connections, c) <= 1
            /\ wsPc[c] \in {"idle", "done"} => ~Registered(c))
    /\ [][\A c \in Clients :
            /\ wsPc[c] = "done" => wsPc'[c] = "done"
            /\ ~Registered(c) /\ Registered(c)' => wsPc[c] = "idle"]_vars

\* one handler has ended on a failed accept or greeting, another after it had
\* been registered and greeted, and a third client is still registered
C14_Witness ==
    \E a, b, c \in Clients :
        /\ wsPc[a] = "done" /\ received[a] = <<>>
        /\ wsPc[b] = "done" /\ received[b] # <<>>
        /\ Registered(c)

\* ---------------------------------------------------------------------- C15
\* the list without the handle c, the others in their order
Without(conns, c) == SelectSeq(conns, LAMBDA x : x # c)

\* the handler of c ends in this step, which calls disconnect(c)
Ends(c) == wsPc[c] # "done" /\ wsPc'[c] = "done"

\* C15: disconnect(c) on the connection list of any reachable state takes c
\* out and leaves every other handle in place, and a further call, or a call
\* for a handle that is not registered, returns the list unchanged; so a
\* handler that ends removes its handle when it is registered, and changes
\* nothing when a broadcast has removed it already or it never was registered
C15_DisconnectIdempotent ==
    /\ [](\A c \in Clients :
            LET once == disconnect(active_connections, c)
            IN  /\ once = Without(active_connections, c)
                /\ disconnect(once, c) = once
                /\ ~Registered(c) => once = active_connections)
    /\ [][\A c \in Clients :
            Ends(c) => active_connections' = Without(active_connections, c)]_vars

\* a broadcast has removed the failed client c, whose handler has yet to end
\* and to call disconnect(c) again, while another client is registered
C15_Witness ==
    \E c, d \in Clients :
        /\ wsPc[c] \in {"receiving", "acking"} /\ ~Registered(c) /\ link[c] = "closed"
        /\ Registered(d)
        /\ \A k \in 1..Len(executors) : c \notin Range(executors[k].disc)

\* ---------------------------------------------------------------------- C16
\* C16: GET /health answers 200 {status: healthy} in whatever state it is
\* called (before the browser exists, with tasks failed, with executors
\* running); it constructs no browser, starts and resumes no executor, and
\* leaves the task store, the connection set and all other state as they were
C16_HealthAlwaysHealthy ==
    /\ [](resp.op = "health"
            => resp.code = 200 /\ resp.body = [status |-> "healthy"] /\ ~resp.built)
    /\ [][resp'.op = "health" => UNCHANGED ProgramState]_vars
    /\ [](arrivals < MaxArrivals => ENABLED health_check)

\* the health check has answered while one task has failed and the agent of
\* another is running
C16_Witness ==
    /\ resp.op = "health" /\ resp.code = 200
    /\ \E t \in DOMAIN tasks : tasks[t].status = "failed"
    /\ \E k \in 1..Len(executors) : executors[k].pc = "agent"

\* ---------------------------------------------------------------------- C17
\* how far an executor has come
Rank(pc) ==
    CASE pc = "start" -> 0
      [] pc = "bc_processing" -> 1
      [] pc = "agent" -> 2
      [] pc \in {"bc_result", "bc_error"} -> 3
      [] pc = "done" -> 4

\* C17: every task id has exactly one executor, which calls the agent at most
\* once and never goes back; a failed task has had its one call and is not
\* run again; and a record's status, result or error changes only in a step
\* of that one executor
C17_SingleExecutorNoRetry ==
    /\ [](/\ \A t \in DOMAIN tasks : Cardinality(ExecutorsOf(t)) = 1
          /\ \A k \in 1..Len(executors) :
                /\ executors[k].task_id \in DOMAIN tasks
                /\ executors[k].calls = (IF Rank(executors[k].pc) >= 2 THEN 1 ELSE 0)
                /\ tasks[executors[k].task_id].status = "failed"
                      => executors[k].pc \in {"bc_error", "done"})
    /\ [][/\ \A k \in 1..Len(executors) :
                /\ executors'[k].task_id = executors[k].task_id
                /\ Rank(executors'[k].pc) >= Rank(executors[k].pc)
                /\ executors'[k].calls >= executors[k].calls
          /\ \A t \in DOMAIN tasks :
                tasks'[t] # tasks[t] => \E k \in ExecutorsOf(t) : Steps(k)]_vars

\* a task has failed and its executor has ended; a task created afterwards is
\* run by another executor while the failed one stays as it is
C17_Witness ==
    /\ Len(executors) >= 2
    /\ tasks["1"].status = "failed" /\ executors[1].pc = "done" /\ executors[1].calls = 1
    /\ executors[2].pc = "agent" /\ executors[2].calls = 1

C18_ConnectedOnce ==
    \A c \in Clients :
        Cardinality({i \in Positions(c) : received[c][i] = ConnectedMsg}) <= 1

\* ---------------------------------------------------------------------- C19
\* C19: the browser is built lazily and once: only POST /tasks builds one, and
\* only when it finds none; once there it is never none again and never built
\* anew; and an executor exists, and so calls the agent, only in states in
\* which the browser has been built
C19_BrowserSingleton ==
    /\ [](/\ resp.built => resp.op = "create" /\ browser # None
          /\ Len(executors) > 0 => browser # None
          /\ \A k \in 1..Len(executors) : executors[k].calls > 0 => browser # None)
    /\ [][/\ browser # None => browser' = browser
          /\ resp'.built => browser = None]_vars

\* a second POST /tasks has found the browser built by the first and has built
\* none, and an executor has called the agent
C19_Witness ==
    /\ resp.op = "create" /\ resp.code = 200 /\ ~resp.built
    /\ len(tasks) = 2 /\ browser # None
    /\ \E k \in 1..Len(executors) : executors[k].calls = 1

\* ---------------------------------------------------------------------- C20
\* a POST /tasks in which initialize_browser raised has just been answered
InitFailed == resp.op = "create" /\ resp.code # 200

\* C20: when initialising the browser raises during POST /tasks the answer is
\* 500 and the state is as it was before the call
C20_FailedInitChangesNothing ==
    [][InitFailed' => resp'.code = 500 /\ UNCHANGED ProgramState]_vars

\* what does hold: the answer is 500, no record is inserted, no id is used up,
\* no executor is started and no frame is sent
C20_FailedInitCreatesNoTask ==
    [][InitFailed' => /\ resp'.code = 500
                      /\ UNCHANGED <<tasks, executors, active_connections, wsPc, link, received>>
                      /\ NextTaskId(tasks') = NextTaskId(tasks)]_vars

====
